---- MODULE Spec2Model ----
(***************************************************************************)
(* Model of the screen-time graph telemetry service:                       *)
(*   services/graph-telemetry/graph_telemetry_service.py                   *)
(*   cloud-run/main.py                                                     *)
(*                                                                         *)
(* Numbers: a parsed axis value and the scale factor are exact rationals   *)
(* <<numerator, denominator>>; a minutes value is an integer count of      *)
(* tenths of a minute (round(x, 1) keeps one decimal).  Strings that are   *)
(* parsed are sequences of one-character strings.  Python's None is the    *)
(* string NoneVal, a JSON boolean is "true" / "false".                     *)
(* An image is the set of annotations drawn over the pixels the loader     *)
(* returned; the temporary files of a request are a function from the      *)
(* creating function's name to whether the file still exists.              *)
(*                                                                         *)
(* Specifications: Spec is one request through the HTTP handler or         *)
(* process_day; SpecPair the walk over the labels, SpecScale the scale     *)
(* computation, SpecBars the bar detector and SpecGrid the grid detector,  *)
(* each on its own over a wider range of inputs.                           *)
(***************************************************************************)
EXTENDS Integers, Sequences, FiniteSets, TLC

VARIABLES
    pc,               \* position of the request in the code
    entry,            \* "http" (cloud-run/main.py) or "direct" (library / CLI call)
    request_body,     \* what the HTTP request carries
    image_input,      \* kind of process_day's image_input: "path", "array", "other"
    target_day,       \* the requested day
    loadable,         \* whether _load_image can read the file
    image_height,     \* img.shape[0]
    zero_line_y,      \* int(grid_info['y_bottom'])
    max_line_y,       \* int(grid_info['y_top'])
    crop_top,         \* max(0, max_line_y - 50)
    crop_bottom,      \* min(image_height, zero_line_y + 100)
    semantic_data,    \* what extract_graph_data returned
    max_value_minutes,\* parsed top-axis value, <<num, den>>
    scale_minutes_per_px, \* <<num, den>>
    detected_bars_cropped, \* the bars detect_bars_positions returned
    bars_rtl,         \* detected bars sorted by center_x descending
    day_value_map,    \* day name -> [minutes, pixels]
    map_built,        \* line 854 has run in this request
    bar_index,        \* next unconsumed bar (0-based, as in the code)
    label_pos,        \* number of labels of labels_rtl already walked
    calc_result,      \* what calculate_minutes_for_day returned
    result,           \* what process_day returned
    response,         \* the HTTP response body and status
    extract_calls,    \* calls of extract_graph_data in this request
    detect_calls,     \* calls of detect_bars_positions in this request
    google_api_key,   \* the credential the service was constructed with
    genai_available,  \* whether importing and configuring the Gemini client succeeds
    use_mock,         \* SinglePromptGraphExtractor.use_mock of this request's extractor
    external_calls,   \* calls of model.generate_content in this request
    exception,        \* the exception that left calculate_minutes_for_day, or NoneVal
    contours_dark,    \* the contours of the dark-theme mask
    invoked,          \* the bar-detector variants invoked so far, in order
    bar_positions_ios,           \* what detect_ios_bars returned
    bar_positions_android_dark,  \* what detect_android_dark_bars returned
    reclaimed_contours_data,     \* the suspects its reclaim pass took back
    bar_positions_android_light, \* what detect_android_light_bars returned
    final_positions,  \* the list detect_bars_positions returns
    detection_type,   \* the variant it reports
    grid_pass,        \* the strategy find_graph_area is at (1-based)
    lines_sorted,     \* the sorted horizontal lines of the current pass
    scored,           \* the clusters that reached the scoring, in any pass so far
    all_passes_candidates, \* the best cluster of each pass that had one
    grid_result,      \* what find_graph_area returned
    img,              \* the pixels of the image _load_image returned, or NoImage
    debug_img_cropped, \* the annotated copy detect_bars_positions returned, or NoImage
    imwrite_raises,   \* whether cv2.imwrite raises on process_day's in-memory image
    temp_files        \* temporary file created for the request -> whether it exists

vars == <<pc, entry, request_body, image_input, target_day, loadable, image_height,
          zero_line_y, max_line_y, crop_top, crop_bottom, semantic_data, max_value_minutes, scale_minutes_per_px,
          detected_bars_cropped, bars_rtl, day_value_map, map_built, bar_index, label_pos,
          calc_result, result, response, extract_calls, detect_calls,
          google_api_key, genai_available, use_mock, external_calls, exception,
          contours_dark, invoked, bar_positions_ios, bar_positions_android_dark,
          reclaimed_contours_data, bar_positions_android_light, final_positions,
          detection_type, grid_pass, lines_sorted, scored, all_passes_candidates,
          grid_result, img, debug_img_cropped, imwrite_raises, temp_files>>

----------------------------------------------------------------------------
(* Bounds of the model *)

\* longest label list the label source returns in the request pipeline
MaxLabels == 2
\* longest label list in the pairing loop's own specification
MaxPairLabels == 4
\* longest raw axis string in the scale computation's own specification
MaxAxisLen == 3
\* most bars the bar detector returns
MaxBars == 3

NoneVal == "<None>"
\* None in an integer field (a pixel coordinate is never negative)
NoneInt == 0 - 1

----------------------------------------------------------------------------
(* Python helpers *)

Digits == {"0", "1", "2", "3", "4", "5", "6", "7", "8", "9"}

DigitVal(c) ==
    CASE c = "0" -> 0 [] c = "1" -> 1 [] c = "2" -> 2 [] c = "3" -> 3
      [] c = "4" -> 4 [] c = "5" -> 5 [] c = "6" -> 6 [] c = "7" -> 7
      [] c = "8" -> 8 [] c = "9" -> 9

\* re.sub(r"[^\d\.]", "", s): keep the digits and the decimal points
IsNumericChar(c) == c \in Digits \/ c = "."
ReSubNonNumeric(s) == SelectSeq(s, IsNumericChar)

IsDot(c) == c = "."
IsDigit(c) == c \in Digits

Pow10(n) == IF n = 0 THEN 1 ELSE IF n = 1 THEN 10 ELSE IF n = 2 THEN 100
            ELSE IF n = 3 THEN 1000 ELSE IF n = 4 THEN 10000 ELSE 100000

RECURSIVE DigitsToInt(_)
DigitsToInt(s) ==
    IF s = <<>> THEN 0
    ELSE 10 * DigitsToInt(SubSeq(s, 1, Len(s) - 1)) + DigitVal(s[Len(s)])

\* float(s) for a string of digits and points: it raises ValueError unless
\* s has at least one digit and at most one point
FloatRaises(s) == Len(SelectSeq(s, IsDot)) > 1 \/ Len(SelectSeq(s, IsDigit)) = 0

\* number of digits after the point
FracDigits(s) ==
    IF Len(SelectSeq(s, IsDot)) = 0 THEN 0
    ELSE Len(s) - (CHOOSE i \in 1..Len(s) : s[i] = ".")

FloatValue(s) == <<DigitsToInt(SelectSeq(s, IsDigit)), Pow10(FracDigits(s))>>

\* lines 832-837: the parsed top-axis value
ParseTopValue(raw_top_value) ==
    LET clean_val == ReSubNonNumeric(raw_top_value)
    IN  IF clean_val = <<>> THEN <<0, 1>>
        ELSE IF FloatRaises(clean_val) THEN <<0, 1>>
        ELSE FloatValue(clean_val)

\* the scale without the test of the pixel span
ScaleFactorAnySpan(value, zero_y, max_y) ==
    IF value[1] > 0 THEN <<value[1], value[2] * (zero_y - max_y)>> ELSE <<0, 1>>

\* lines 840-841: minutes per pixel
ScaleFactor(value, zero_y, max_y) ==
    LET pixel_span == zero_y - max_y
    IN  IF pixel_span > 0 /\ value[1] > 0
        THEN <<value[1], value[2] * pixel_span>>
        ELSE <<0, 1>>

\* round(n / d, 0) for d > 0, ties to the even neighbour as Python's round
RoundHalfEven(n, d) ==
    LET q == n \div d
        r == n - q * d
    IN  IF 2 * r < d THEN q
        ELSE IF 2 * r > d THEN q + 1
        ELSE IF q % 2 = 0 THEN q ELSE q + 1

\* the product truncated to one decimal instead of rounded
TruncatedMinutes(pixels, scale) == (10 * pixels * scale[1]) \div scale[2]

\* round(pixels * scale, 1), in tenths of a minute
RoundedMinutes(pixels, scale) == RoundHalfEven(10 * pixels * scale[1], scale[2])

\* has_bar as an if-condition: None and False are falsy
Truthy(has_bar) == has_bar = "true"

\* the assignment guarded by "if key:", which skips the None key
DictSetUnlessNone(d, key, value) ==
    IF key = NoneVal THEN d
    ELSE [k \in (DOMAIN d) \cup {key} |-> IF k = key THEN value ELSE d[k]]

\* dict[key] = value
DictSet(d, key, value) ==
    [k \in (DOMAIN d) \cup {key} |-> IF k = key THEN value ELSE d[k]]

EmptyDict == [k \in {} |-> 0]

----------------------------------------------------------------------------
(* Input domains *)

\* requested days; "Noday" is never a label of the modelled charts
TargetDays == {"Sun", "Noday"}

\* heights of the modelled images
ImageHeights == {700, 200}

\* find_graph_area's outcome on an image of height h: no cluster, or the
\* winning cluster's first and last line
GridResults(h) ==
    {[y_top |-> NoneInt, y_bottom |-> NoneInt]} \cup
    (IF h = 700 THEN {[y_top |-> 100, y_bottom |-> 500]}
                ELSE {[y_top |-> 30, y_bottom |-> 93]})

\* the sentinel axis strings of the label source
JSON_PARSE_FAILED ==
    <<"J","S","O","N","_","P","A","R","S","E","_","F","A","I","L","E","D">>
KEY_MISSING == <<"K","E","Y","_","M","I","S","S","I","N","G">>

\* the canned response, lines 11-22
MOCK_GEMINI_OUTPUT ==
    [X_axis |-> << [label |-> "Sat", has_bar |-> "false"],
                   [label |-> "Fri", has_bar |-> "false"],
                   [label |-> "Thu", has_bar |-> "false"],
                   [label |-> "Wed", has_bar |-> "false"],
                   [label |-> "Tue", has_bar |-> "true"],
                   [label |-> "Mon", has_bar |-> "true"],
                   [label |-> "Sun", has_bar |-> "true"] >>,
     Y_axisTopValue |-> <<"2", "4", "0">>]

\* label objects {"label": ..., "has_bar": ...}; NoneVal is what .get()
\* returns for an absent field
LabelObjs ==
    {[label |-> "Sun", has_bar |-> "true"], [label |-> "Sun", has_bar |-> "false"],
     [label |-> "Mon", has_bar |-> "true"], [label |-> "Mon", has_bar |-> NoneVal],
     [label |-> NoneVal, has_bar |-> "true"]}

SeqsUpTo(S, n) == UNION {[1..k -> S] : k \in 0..n}

AxisStrings ==
    {<<"2", "4", "0">>, <<"1", ".", "5", "k">>, <<"1", ".", "2", ".", "3">>,
     <<".">>, KEY_MISSING}

\* what extract_graph_data can return to the request pipeline
SemanticOutputs ==
    {MOCK_GEMINI_OUTPUT, [X_axis |-> <<>>, Y_axisTopValue |-> JSON_PARSE_FAILED]}
    \cup {[X_axis |-> l, Y_axisTopValue |-> y] :
             l \in SeqsUpTo(LabelObjs, MaxLabels), y \in AxisStrings}

----------------------------------------------------------------------------
(* The label source: SinglePromptGraphExtractor, lines 378-517 *)

\* the credential: None, or a string of characters
KeyNone == [none |-> TRUE]
Key(chars) == [chars |-> chars]

\* str.strip() removes leading and trailing whitespace
Whitespace == {" ", "\t"}

RECURSIVE LStrip(_)
LStrip(chars) ==
    IF chars # <<>> /\ Head(chars) \in Whitespace THEN LStrip(Tail(chars)) ELSE chars

RECURSIVE RStrip(_)
RStrip(chars) ==
    IF chars # <<>> /\ chars[Len(chars)] \in Whitespace
    THEN RStrip(SubSeq(chars, 1, Len(chars) - 1))
    ELSE chars

Strip(chars) == RStrip(LStrip(chars))

\* the credentials a service is constructed with; cloud-run/main.py reads
\* the environment with the default '', so its key is never None
ApiKeys(how) ==
    (IF how = "http" THEN {} ELSE {KeyNone})
    \cup {Key(<<>>), Key(<<" ">>), Key(<<" ", "\t">>), Key(<<"k">>), Key(<<" ", "k">>)}

\* an empty key counts as a credential
NoCredentialOnlyNone(key) == "none" \in DOMAIN key

\* line 382: not google_api_key or google_api_key.strip() == ""
NoCredential(key) ==
    \/ "none" \in DOMAIN key
    \/ key.chars = <<>>
    \/ Strip(key.chars) = <<>>

\* lines 382-392: use_mock after __init__; a failed import or configuration
\* of the client also switches the extractor to the canned response
UseMock(key, genai_ok) == NoCredential(key) \/ ~genai_ok

JSON_DECODE_ERROR == <<"J", "S", "O", "N", "_", "D", "E", "C">>
API_CALL_FAILED == <<"A", "P", "I", "_", "C", "A", "L", "L">>

\* JSON values of the "X-axis" key that are not a list of objects: a value
\* that is not iterable (null), and a list element that is not an object
NotAList == <<[not_a_list |-> "null"]>>
ScalarElement == [not_an_object |-> "number"]

IsObject(label_obj) == DOMAIN label_obj = {"label", "has_bar"}

WellFormedLabels(x_axis) == \A i \in 1..Len(x_axis) : IsObject(x_axis[i])

\* the raw text of a model reply, by what _parse_gemini_response sees in it:
\* whether the pattern {.*} matches, whether json.loads decodes the match,
\* and the decoded object
NoJsonText == [json_block |-> FALSE]
UndecodableText == [json_block |-> TRUE, decodable |-> FALSE]
JsonText(data) == [json_block |-> TRUE, decodable |-> TRUE, data |-> data]

\* decoded objects with a key missing or a malformed "X-axis" value
IncompleteObjects ==
    {[k \in {} |-> <<>>]}
    \cup {[Y_axisTopValue |-> y] : y \in AxisStrings}
    \cup {[X_axis |-> l] : l \in SeqsUpTo(LabelObjs, MaxLabels)}

MalformedObjects ==
    {[X_axis |-> l, Y_axisTopValue |-> <<"2", "4", "0">>] :
        l \in {NotAList, <<ScalarElement>>,
               <<[label |-> "Sun", has_bar |-> "true"], ScalarElement>>}}

GeminiTexts ==
    {NoJsonText, UndecodableText}
    \cup {JsonText(d) : d \in SemanticOutputs \cup IncompleteObjects \cup MalformedObjects}

\* lines 471-493: generate_content returns a reply or raises
GeminiOutcomes == {[raised |-> TRUE]} \cup {[text |-> t] : t \in GeminiTexts}

\* lines 474-493: the text _call_gemini_single_prompt hands on
TextResponse(outcome) ==
    IF "raised" \in DOMAIN outcome
    THEN JsonText([X_axis |-> <<>>, Y_axisTopValue |-> API_CALL_FAILED])
    ELSE outcome.text

\* lines 399-429: _parse_gemini_response
ParseGeminiResponse(text_response) ==
    IF ~text_response.json_block
    THEN [X_axis |-> <<>>, Y_axisTopValue |-> JSON_PARSE_FAILED]
    ELSE IF ~text_response.decodable
    THEN [X_axis |-> <<>>, Y_axisTopValue |-> JSON_DECODE_ERROR]
    ELSE LET parsed_data == text_response.data
         IN  [X_axis |-> IF "X_axis" \in DOMAIN parsed_data
                         THEN parsed_data.X_axis ELSE <<>>,
              Y_axisTopValue |-> IF "Y_axisTopValue" \in DOMAIN parsed_data
                                 THEN parsed_data.Y_axisTopValue ELSE KEY_MISSING]

\* bars {center_x, y_top} in crop coordinates
Bar(cx, y) == [center_x |-> cx, y_top |-> y]

\* detect_bars_positions returns its list in ascending center_x order
\* (_draw_final_bars sorts it in place, line 46)
IsAscending(bars) == \A i \in 1..(Len(bars) - 1) : bars[i].center_x <= bars[i + 1].center_x

\* the bar lists the request pipeline draws from: none, or at least 3 bars
PipelineBarLists ==
    {<<>>,
     <<Bar(100, 150), Bar(200, 60), Bar(300, 250)>>,
     <<Bar(100, 60), Bar(100, 150), Bar(300, 60)>>}

----------------------------------------------------------------------------
(* sorted(bars, key=center_x, reverse=True): a stable sort, so bars with  *)
(* equal center_x keep their relative order                               *)

RECURSIVE InsertDesc(_, _)
InsertDesc(sorted, b) ==
    \* b goes after every element whose key is >= b's key
    IF sorted = <<>> THEN <<b>>
    ELSE IF Head(sorted).center_x >= b.center_x
         THEN <<Head(sorted)>> \o InsertDesc(Tail(sorted), b)
         ELSE <<b>> \o sorted

RECURSIVE SortedDesc(_)
SortedDesc(bars) ==
    IF bars = <<>> THEN <<>>
    ELSE InsertDesc(SortedDesc(SubSeq(bars, 1, Len(bars) - 1)), bars[Len(bars)])

----------------------------------------------------------------------------
(* Initial state: a request arrives *)

\* the request's inputs
inputs == <<entry, request_body, image_input, target_day, loadable,
            google_api_key, genai_available, imwrite_raises>>

\* the locals of calculate_minutes_for_day
locals == <<image_height, zero_line_y, max_line_y, crop_top, crop_bottom,
            semantic_data, max_value_minutes, scale_minutes_per_px,
            detected_bars_cropped, bars_rtl, day_value_map, map_built, bar_index,
            label_pos, extract_calls, detect_calls, use_mock, external_calls,
            exception>>

\* the locals of detect_bars_positions
bar_state == <<contours_dark, invoked, bar_positions_ios, bar_positions_android_dark,
               reclaimed_contours_data, bar_positions_android_light,
               final_positions, detection_type>>

\* the locals of find_graph_area
grid_state == <<grid_pass, lines_sorted, scored, all_passes_candidates, grid_result>>

\* the image buffers of calculate_minutes_for_day
image_state == <<img, debug_img_cropped>>

NoResult == [pending |-> TRUE]

\* The pixels of an image are recorded as what has been drawn over the pixels
\* the loader returned: one mark for each annotated bar, at the bar's top.
Mark(center_x, y_top) == [center_x |-> center_x, y_top |-> y_top]

\* line 804: the image as _load_image returns it
LoadedImage == [drawn |-> {}]

\* no image: the name is unbound, or holds None
NoImage == [none |-> TRUE]

\* line 825: img[crop_top:crop_bottom, 0:image_width], in the crop's coordinates
CropRows(image, top, bottom) ==
    [drawn |-> {Mark(m.center_x, m.y_top - top) :
                  m \in {n \in image.drawn : top <= n.y_top /\ n.y_top < bottom}}]

\* lines 32-70: _draw_final_bars copies the image and draws a rectangle and a
\* number on the copy for every bar position
DrawFinalBars(image, bar_positions) ==
    [drawn |-> image.drawn \cup
                 {Mark(bar_positions[i].center_x, bar_positions[i].y_top) :
                    i \in 1..Len(bar_positions)}]

\* line 905: img[crop_top:crop_bottom, 0:image_width] = debug_img_cropped
AssignRows(image, top, bottom, patch) ==
    [drawn |-> {n \in image.drawn : ~(top <= n.y_top /\ n.y_top < bottom)}
                 \cup {Mark(m.center_x, m.y_top + top) : m \in patch.drawn}]

\* tempfile.NamedTemporaryFile(delete=False): the file exists once the with
\* block is entered, before anything is written to it
CreateTemp(files, name) ==
    [n \in DOMAIN files \cup {name} |-> IF n = name THEN TRUE ELSE files[n]]

\* os.unlink(temp_path)
Unlink(files, name) ==
    [n \in DOMAIN files |-> IF n = name THEN FALSE ELSE files[n]]

\* no temporary file has been created
NoTempFiles == [n \in {} |-> FALSE]

\* no image is loaded
ImageIdle ==
    /\ img = NoImage
    /\ debug_img_cropped = NoImage

\* the locals of calculate_minutes_for_day before it runs
LocalsInit ==
    /\ zero_line_y = NoneInt
    /\ max_line_y = NoneInt
    /\ crop_top = 0
    /\ crop_bottom = 0
    /\ image_height = 0
    /\ semantic_data = [X_axis |-> <<>>, Y_axisTopValue |-> <<>>]
    /\ max_value_minutes = <<0, 1>>
    /\ scale_minutes_per_px = <<0, 1>>
    /\ detected_bars_cropped = <<>>
    /\ bars_rtl = <<>>
    /\ day_value_map = EmptyDict
    /\ map_built = FALSE
    /\ bar_index = 0
    /\ label_pos = 0
    /\ extract_calls = 0
    /\ detect_calls = 0
    /\ use_mock = FALSE
    /\ external_calls = 0
    /\ exception = NoneVal

\* the bar detector's variables before detect_bars_positions runs
BarsIdle ==
    /\ contours_dark = <<>>
    /\ invoked = <<>>
    /\ bar_positions_ios = <<>>
    /\ bar_positions_android_dark = <<>>
    /\ reclaimed_contours_data = <<>>
    /\ bar_positions_android_light = <<>>
    /\ final_positions = <<>>
    /\ detection_type = NoneVal

\* the grid detector's variables before find_graph_area runs
GridIdle ==
    /\ grid_pass = 0
    /\ lines_sorted = <<>>
    /\ scored = {}
    /\ all_passes_candidates = <<>>
    /\ grid_result = NoResult

\* request bodies of the HTTP endpoint: no JSON body, a body without
\* imageData or targetDay, image data that is not base64, a complete body
RequestBodies == {"empty", "no_params", "bad_base64", "ok"}

Init ==
    /\ entry \in {"http", "direct"}
    /\ pc = (IF entry = "http" THEN "http" ELSE "start")
    /\ request_body \in (IF entry = "http" THEN RequestBodies ELSE {"ok"})
    \* the HTTP handler always passes the path of its temporary file
    /\ image_input \in (IF entry = "http" THEN {"path"} ELSE {"path", "array", "other"})
    /\ target_day \in TargetDays
    /\ loadable \in BOOLEAN
    /\ google_api_key \in ApiKeys(entry)
    /\ genai_available \in BOOLEAN
    \* only an in-memory image is written with cv2.imwrite
    /\ imwrite_raises \in (IF image_input = "array" THEN BOOLEAN ELSE {FALSE})
    /\ temp_files = NoTempFiles
    /\ LocalsInit
    /\ calc_result = NoResult
    /\ result = NoResult
    /\ response = NoResult
    /\ BarsIdle
    /\ GridIdle
    /\ ImageIdle

----------------------------------------------------------------------------
(* GraphTelemetryService.process_day, lines 950-981 *)

\* lines 956-969: the isinstance dispatch; an in-memory image is written to
\* a temporary file first, outside the try block that unlinks the file
ProcessDayCall ==
    /\ pc = "start"
    /\ CASE image_input = "array" /\ imwrite_raises ->
               /\ temp_files' = CreateTemp(temp_files, "process_day")
               /\ exception' = "cv2.error"
               /\ pc' = "raised"
               /\ UNCHANGED result
          [] image_input = "array" /\ ~imwrite_raises ->
               /\ temp_files' = CreateTemp(temp_files, "process_day")
               /\ pc' = "load"
               /\ UNCHANGED <<result, exception>>
          [] image_input = "path" ->
               /\ pc' = "load"
               /\ UNCHANGED <<result, exception, temp_files>>
          [] OTHER ->
               /\ pc' = "returned"
               /\ result' = [error |-> "Invalid image input"]
               /\ UNCHANGED <<exception, temp_files>>
    /\ UNCHANGED <<inputs, image_height, zero_line_y, max_line_y, crop_top,
                   crop_bottom, semantic_data, max_value_minutes,
                   scale_minutes_per_px, detected_bars_cropped, bars_rtl,
                   day_value_map, map_built, bar_index, label_pos, extract_calls,
                   detect_calls, use_mock, external_calls, calc_result, response>>
    /\ UNCHANGED <<bar_state, grid_state, image_state>>

\* dict.get(key, default)
Get(d, key, default) == IF key \in DOMAIN d THEN d[key] ELSE default

\* found decided by the minutes alone
CompatRecordFoundByMinutes(res, day) ==
    [day |-> Get(res, "target_day", day),
     minutes |-> Get(res, "minutes", 0),
     found |-> Get(res, "minutes", 0) > 0,
     metadata |-> [scale_min_per_px |-> Get(res, "scale_factor", <<0, 1>>),
                   max_val_y |-> Get(res, "raw_max_value", <<0, 1>>)]]

\* lines 971-979: the record built from calculate_minutes_for_day's result
CompatRecord(res, day) ==
    [day |-> Get(res, "target_day", day),
     minutes |-> Get(res, "minutes", 0),
     found |-> (Get(res, "minutes", 0) > 0
                \/ day \in DOMAIN Get(res, "full_map", EmptyDict)),
     metadata |-> [scale_min_per_px |-> Get(res, "scale_factor", <<0, 1>>),
                   max_val_y |-> Get(res, "raw_max_value", <<0, 1>>)]]

\* what process_day returns once calculate_minutes_for_day has returned
ProcessDayResult(kind, res, day) ==
    IF kind = "array" THEN res ELSE CompatRecord(res, day)

ProcessDayReturn ==
    /\ pc = "calc_done"
    /\ result' = ProcessDayResult(image_input, calc_result, target_day)
    \* line 967: the finally clause of the in-memory branch
    /\ temp_files' = IF image_input = "array"
                     THEN Unlink(temp_files, "process_day") ELSE temp_files
    /\ pc' = "returned"
    /\ UNCHANGED <<inputs, locals, calc_result, response>>
    /\ UNCHANGED <<bar_state, grid_state, image_state>>

----------------------------------------------------------------------------
(* calculate_minutes_for_day, lines 797-920 *)

Max(a, b) == IF a >= b THEN a ELSE b
Min(a, b) == IF a <= b THEN a ELSE b

\* lines 804-808: _load_image returned None, or the image
LoadImage ==
    /\ pc = "load"
    /\ IF loadable
       THEN /\ \E h \in ImageHeights : image_height' = h
            /\ img' = LoadedImage
            /\ pc' = "grid"
            /\ UNCHANGED calc_result
       ELSE /\ calc_result' = [error |-> "Image could not be loaded"]
            /\ pc' = "calc_done"
            /\ UNCHANGED <<image_height, img>>
    /\ UNCHANGED <<inputs, zero_line_y, max_line_y, crop_top, crop_bottom,
                   semantic_data, max_value_minutes, scale_minutes_per_px,
                   detected_bars_cropped, bars_rtl, day_value_map, map_built,
                   bar_index, label_pos, extract_calls, use_mock, external_calls, exception, detect_calls, result,
                   response>>
    /\ UNCHANGED <<bar_state, grid_state, debug_img_cropped, temp_files>>

\* the check of line 814 left out
GridFailedUnchecked(grid_info) == FALSE

\* line 814: the grid detector found no cluster
GridFailed(grid_info) == grid_info.y_bottom = NoneInt \/ grid_info.y_top = NoneInt

\* lines 812-825: grid detection and the crop window
FindGraphArea ==
    /\ pc = "grid"
    /\ \E grid_info \in GridResults(image_height) :
         IF GridFailed(grid_info)
         THEN /\ calc_result' = [error |-> "Failed to detect graph grid lines"]
              /\ pc' = "calc_done"
              /\ UNCHANGED <<zero_line_y, max_line_y, crop_top, crop_bottom>>
         ELSE /\ zero_line_y' = grid_info.y_bottom
              /\ max_line_y' = grid_info.y_top
              /\ crop_top' = Max(0, grid_info.y_top - 50)
              /\ crop_bottom' = Min(image_height, grid_info.y_bottom + 100)
              /\ pc' = "extract"
              /\ UNCHANGED calc_result
    /\ UNCHANGED <<inputs, image_height, semantic_data, max_value_minutes,
                   scale_minutes_per_px, detected_bars_cropped, bars_rtl,
                   day_value_map, map_built,
                   bar_index, label_pos, extract_calls, use_mock, external_calls, exception, detect_calls, result, response>>
    /\ UNCHANGED <<bar_state, grid_state, image_state, temp_files>>

\* lines 827-841: the label source is called on the crop, the top-axis value
\* is parsed and the scale derived
ExtractLabels ==
    /\ pc = "extract"
    /\ use_mock' = UseMock(google_api_key, genai_available)
    /\ \E sd \in (IF UseMock(google_api_key, genai_available)
                  THEN {MOCK_GEMINI_OUTPUT}
                  ELSE {ParseGeminiResponse(TextResponse(o)) : o \in GeminiOutcomes}) :
         /\ semantic_data' = sd
         /\ max_value_minutes' = ParseTopValue(sd.Y_axisTopValue)
         /\ scale_minutes_per_px' =
               ScaleFactor(ParseTopValue(sd.Y_axisTopValue), zero_line_y, max_line_y)
    /\ external_calls' = IF UseMock(google_api_key, genai_available)
                         THEN external_calls ELSE external_calls + 1
    /\ extract_calls' = extract_calls + 1
    /\ UNCHANGED exception
    /\ pc' = "detect"
    /\ UNCHANGED <<inputs, image_height, zero_line_y, max_line_y, crop_top, crop_bottom,
                   detected_bars_cropped, bars_rtl, day_value_map, map_built,
                   bar_index, label_pos, detect_calls, calc_result, result, response>>
    /\ UNCHANGED <<bar_state, grid_state, image_state, temp_files>>

\* a bar the detector can report on a crop of the given height
InCrop(bars, crop_height) == \A i \in 1..Len(bars) : bars[i].y_top < crop_height

\* lines 845-856: the bar detector is called on the crop, its bars are sorted
\* right to left and the walk over the labels is set up
DetectBars ==
    /\ pc = "detect"
    /\ \E bars \in PipelineBarLists :
         /\ InCrop(bars, crop_bottom - crop_top)
         /\ detected_bars_cropped' = bars
         /\ debug_img_cropped' =
               DrawFinalBars(CropRows(img, crop_top, crop_bottom), bars)
         /\ bars_rtl' = SortedDesc(bars)
    /\ detect_calls' = detect_calls + 1
    /\ day_value_map' = EmptyDict
    /\ map_built' = TRUE
    /\ bar_index' = 0
    /\ label_pos' = 0
    /\ pc' = "map"
    /\ UNCHANGED <<inputs, image_height, zero_line_y, max_line_y, crop_top, crop_bottom,
                   semantic_data, max_value_minutes, scale_minutes_per_px,
                   extract_calls, use_mock, external_calls, exception, calc_result, result, response>>
    /\ UNCHANGED <<bar_state, grid_state, img, temp_files>>

\* the has_bar flag ignored: every label takes the next bar
ConsumesBarIgnoringFlag(label_obj, bars, index) == index < Len(bars)

\* line 865-866: this label consumes the next bar
ConsumesBar(label_obj, bars, index) == Truthy(label_obj.has_bar) /\ index < Len(bars)

\* a true-label without a remaining bar takes the last bar again
LabelEntryReusingLastBar(label_obj, bars, index, top, zero_y, scale) ==
    IF Truthy(label_obj.has_bar) /\ Len(bars) > 0
    THEN LET current_bar == bars[Min(index + 1, Len(bars))]
             bar_pixel_height == zero_y - (current_bar.y_top + top)
         IN  [minutes |-> RoundedMinutes(bar_pixel_height, scale),
              pixels |-> bar_pixel_height]
    ELSE [minutes |-> 0, pixels |-> 0]

\* lines 862-889: the entry computed for one label
LabelEntry(label_obj, bars, index, top, zero_y, scale) ==
    IF ConsumesBar(label_obj, bars, index)
    THEN LET current_bar == bars[index + 1]
             bar_top_y_normalized == current_bar.y_top + top
             bar_pixel_height == zero_y - bar_top_y_normalized
         IN  [minutes |-> RoundedMinutes(bar_pixel_height, scale),
              pixels |-> bar_pixel_height]
    ELSE [minutes |-> 0, pixels |-> 0]

\* lines 858-889: one iteration of the walk over labels_rtl
MapLabel ==
    /\ pc = "map"
    /\ label_pos < Len(semantic_data.X_axis)
    /\ IsObject(semantic_data.X_axis[label_pos + 1])
    /\ LET label_obj == semantic_data.X_axis[label_pos + 1]
       IN  /\ day_value_map' =
                 DictSet(day_value_map, label_obj.label,
                         LabelEntry(label_obj, bars_rtl, bar_index, crop_top,
                                    zero_line_y, scale_minutes_per_px))
           /\ bar_index' = IF ConsumesBar(label_obj, bars_rtl, bar_index)
                           THEN bar_index + 1 ELSE bar_index
    /\ label_pos' = label_pos + 1
    /\ UNCHANGED <<pc, inputs, image_height, zero_line_y, max_line_y, crop_top,
                   crop_bottom, semantic_data, max_value_minutes,
                   scale_minutes_per_px, detected_bars_cropped, bars_rtl, map_built,
                   extract_calls, use_mock, external_calls, exception,
                   detect_calls, calc_result, result, response>>
    /\ UNCHANGED <<bar_state, grid_state, image_state, temp_files>>

\* lines 858-860: iterating a value that is not a list raises TypeError,
\* .get on an element that is not an object raises AttributeError; neither
\* calculate_minutes_for_day nor process_day catches it; on its way out the
\* exception runs the finally clause of process_day's in-memory branch
MapLabelRaises ==
    /\ pc = "map"
    /\ label_pos < Len(semantic_data.X_axis)
    /\ ~IsObject(semantic_data.X_axis[label_pos + 1])
    /\ exception' = IF semantic_data.X_axis = NotAList
                    THEN "TypeError" ELSE "AttributeError"
    /\ temp_files' = IF image_input = "array"
                     THEN Unlink(temp_files, "process_day") ELSE temp_files
    /\ pc' = "raised"
    /\ UNCHANGED <<inputs, image_height, zero_line_y, max_line_y, crop_top,
                   crop_bottom, semantic_data, max_value_minutes,
                   scale_minutes_per_px, detected_bars_cropped, bars_rtl,
                   day_value_map, map_built, bar_index, label_pos, extract_calls,
                   detect_calls, use_mock, external_calls, calc_result, result,
                   response>>
    /\ UNCHANGED <<bar_state, grid_state, image_state>>

\* lines 892-920: the success record of calculate_minutes_for_day
SuccessRecord(day, map, value, zero_y, scale) ==
    [target_day |-> day,
     minutes |-> IF day \in DOMAIN map THEN map[day].minutes ELSE 0,
     raw_max_value |-> value,
     zero_line_y_original |-> zero_y,
     pixels_height |-> IF day \in DOMAIN map THEN map[day].pixels ELSE 0,
     scale_factor |-> scale,
     full_map |-> map,
     debug_image |-> "image"]

\* lines 891-920: the walk is over; look the target day up, write the
\* annotated crop into the rows of img it was cut from, and return
LookupDay ==
    /\ pc = "map"
    /\ label_pos = Len(semantic_data.X_axis)
    /\ calc_result' = SuccessRecord(target_day, day_value_map, max_value_minutes,
                                    zero_line_y, scale_minutes_per_px)
    /\ img' = IF debug_img_cropped # NoImage
              THEN AssignRows(img, crop_top, crop_bottom, debug_img_cropped)
              ELSE img
    /\ pc' = "calc_done"
    /\ UNCHANGED <<inputs, locals, result, response>>
    /\ UNCHANGED <<bar_state, grid_state, debug_img_cropped, temp_files>>

----------------------------------------------------------------------------
(* process_screenshot, cloud-run/main.py lines 32-127 *)

\* lines 53-96: validation of the body, decoding of the image data and
\* writing of the bytes to a temporary file
HttpReceive ==
    /\ pc = "http"
    /\ IF request_body = "ok"
       THEN /\ temp_files' = CreateTemp(temp_files, "process_screenshot")
            /\ pc' = "start"
            /\ UNCHANGED response
       ELSE /\ pc' = "responded"
            /\ UNCHANGED temp_files
            /\ response' =
                 [status |-> 400, success |-> FALSE,
                  error |-> CASE request_body = "empty" -> "Missing request body"
                              [] request_body = "no_params" ->
                                   "Missing required parameters: imageData and targetDay"
                              [] OTHER -> "Invalid image data format"]
    /\ UNCHANGED <<inputs, locals, calc_result, result>>
    /\ UNCHANGED <<bar_state, grid_state, image_state>>

\* lines 105-111: the body built from process_day's record
HttpResponse(res, day) ==
    [status |-> 200,
     success |-> TRUE,
     day |-> Get(res, "day", day),
     minutes |-> Get(res, "minutes", 0),
     found |-> Get(res, "found", FALSE),
     metadata |-> Get(res, "metadata", EmptyDict)]

\* lines 98-118: the response is built, then the finally clause unlinks the
\* temporary file
HttpRespond ==
    /\ pc = "returned"
    /\ entry = "http"
    /\ response' = HttpResponse(result, target_day)
    /\ temp_files' = Unlink(temp_files, "process_screenshot")
    /\ pc' = "responded"
    /\ UNCHANGED <<inputs, locals, calc_result, result>>
    /\ UNCHANGED <<bar_state, grid_state, image_state>>

\* lines 112-127: the finally clause unlinks the temporary file, then the
\* handler's catch-all turns the exception into a 500
HttpRespondError ==
    /\ pc = "raised"
    /\ entry = "http"
    /\ response' = [status |-> 500, success |-> FALSE, error |-> exception]
    /\ temp_files' = Unlink(temp_files, "process_screenshot")
    /\ pc' = "responded"
    /\ UNCHANGED <<inputs, locals, calc_result, result>>
    /\ UNCHANGED <<bar_state, grid_state, image_state>>

----------------------------------------------------------------------------
(* The request pipeline *)

Next ==
    \/ HttpReceive
    \/ ProcessDayCall
    \/ LoadImage
    \/ FindGraphArea
    \/ ExtractLabels
    \/ DetectBars
    \/ MapLabel
    \/ MapLabelRaises
    \/ LookupDay
    \/ ProcessDayReturn
    \/ HttpRespond
    \/ HttpRespondError

Spec == Init /\ [][Next]_vars

----------------------------------------------------------------------------
(* The walk over the labels (lines 853-920) on its own, over longer label   *)
(* lists and every bar list: the state right after line 856, on a 700px     *)
(* image with the grid at 100..500 and the axis value "240"                 *)

PairLabelObjs ==
    {[label |-> "Sun", has_bar |-> "true"], [label |-> "Mon", has_bar |-> "true"],
     [label |-> "Tue", has_bar |-> "true"], [label |-> NoneVal, has_bar |-> "true"],
     [label |-> "Sun", has_bar |-> "false"]}

\* two of the bars share their center_x
PairBars == {Bar(100, 60), Bar(200, 250), Bar(200, 60), Bar(300, 250)}

\* the bar detector returns no bar or at least 3
MinBars == 3

PairBarLists ==
    {<<>>} \cup
    {b \in UNION {[1..n -> PairBars] : n \in MinBars..MaxBars} : IsAscending(b)}

InitPair ==
    /\ pc = "map"
    /\ entry = "direct"
    /\ request_body = "ok"
    /\ image_input = "path"
    /\ target_day = "Sun"
    /\ loadable = TRUE
    /\ image_height = 700
    /\ zero_line_y = 500
    /\ max_line_y = 100
    /\ crop_top = 50
    /\ crop_bottom = 600
    /\ \E l \in SeqsUpTo(PairLabelObjs, MaxPairLabels) :
          semantic_data = [X_axis |-> l, Y_axisTopValue |-> <<"2", "4", "0">>]
    /\ max_value_minutes = ParseTopValue(<<"2", "4", "0">>)
    /\ scale_minutes_per_px = ScaleFactor(ParseTopValue(<<"2", "4", "0">>), 500, 100)
    /\ detected_bars_cropped \in PairBarLists
    /\ bars_rtl = SortedDesc(detected_bars_cropped)
    /\ img = LoadedImage
    /\ debug_img_cropped =
          DrawFinalBars(CropRows(LoadedImage, 50, 600), detected_bars_cropped)
    /\ day_value_map = EmptyDict
    /\ map_built = TRUE
    /\ bar_index = 0
    /\ label_pos = 0
    /\ extract_calls = 1
    /\ detect_calls = 1
    /\ google_api_key = Key(<<"k">>)
    /\ genai_available = TRUE
    /\ imwrite_raises = FALSE
    /\ temp_files = NoTempFiles
    /\ use_mock = FALSE
    /\ external_calls = 1
    /\ exception = NoneVal
    /\ calc_result = NoResult
    /\ result = NoResult
    /\ response = NoResult
    /\ BarsIdle
    /\ GridIdle

NextPair == MapLabel \/ LookupDay

SpecPair == InitPair /\ [][NextPair]_vars

----------------------------------------------------------------------------
(* The scale computation (lines 831-841) on its own, over every short axis  *)
(* string and over grid spans of every sign                                 *)

AxisChars == {"0", "2", "4", ".", "k"}

ScaleAxisStrings == AxisStrings \cup {JSON_PARSE_FAILED} \cup SeqsUpTo(AxisChars, MaxAxisLen)

\* <<zero_line_y, max_line_y>>
ScaleLines == {<<500, 100>>, <<93, 30>>, <<100, 100>>, <<100, 500>>}

InitScale ==
    /\ pc = "scale"
    /\ entry = "direct"
    /\ request_body = "ok"
    /\ image_input = "path"
    /\ target_day = "Sun"
    /\ loadable = TRUE
    /\ image_height = 700
    /\ \E ln \in ScaleLines : zero_line_y = ln[1] /\ max_line_y = ln[2]
    /\ crop_top = 0
    /\ crop_bottom = 0
    /\ \E y \in ScaleAxisStrings : semantic_data = [X_axis |-> <<>>, Y_axisTopValue |-> y]
    /\ max_value_minutes = <<0, 1>>
    /\ scale_minutes_per_px = <<0, 1>>
    /\ detected_bars_cropped = <<>>
    /\ bars_rtl = <<>>
    /\ day_value_map = EmptyDict
    /\ map_built = FALSE
    /\ bar_index = 0
    /\ label_pos = 0
    /\ extract_calls = 1
    /\ detect_calls = 0
    /\ google_api_key = Key(<<"k">>)
    /\ genai_available = TRUE
    /\ imwrite_raises = FALSE
    /\ temp_files = NoTempFiles
    /\ use_mock = FALSE
    /\ external_calls = 1
    /\ exception = NoneVal
    /\ calc_result = NoResult
    /\ result = NoResult
    /\ response = NoResult
    /\ BarsIdle
    /\ GridIdle
    /\ img = LoadedImage
    /\ debug_img_cropped = NoImage

\* lines 831-841
ComputeScale ==
    /\ pc = "scale"
    /\ max_value_minutes' = ParseTopValue(semantic_data.Y_axisTopValue)
    /\ scale_minutes_per_px' =
          ScaleFactor(ParseTopValue(semantic_data.Y_axisTopValue), zero_line_y, max_line_y)
    /\ pc' = "detect"
    /\ UNCHANGED <<inputs, image_height, zero_line_y, max_line_y, crop_top, crop_bottom,
                   semantic_data, detected_bars_cropped, bars_rtl, day_value_map,
                   map_built, bar_index, label_pos, extract_calls, use_mock, external_calls, exception, detect_calls,
                   calc_result, result, response>>
    /\ UNCHANGED <<bar_state, grid_state, image_state, temp_files>>

NextScale == ComputeScale

SpecScale == InitScale /\ [][NextScale]_vars

----------------------------------------------------------------------------
(* The bar detector: detect_bars_positions and its three variants, lines    *)
(* 72-371, on their own.  A contour is its bounding box and its area.       *)

\* most contours one colour mask yields
MaxContours == 5

\* image.shape of the crop the detector works on
BarsImgWidth == 400
BarsImgHeight == 500

Contour(x, y, w, h, area) == [x |-> x, y |-> y, w |-> w, h |-> h, area |-> area]

AbsDiff(a, b) == IF a >= b THEN a - b ELSE b - a

\* the sub-list of pool holding the elements whose index is in S
RECURSIVE Pick(_, _, _)
Pick(pool, S, i) ==
    IF i > Len(pool) THEN <<>>
    ELSE (IF i \in S THEN <<pool[i]>> ELSE <<>>) \o Pick(pool, S, i + 1)

\* the contour lists findContours can yield from a pool, at most n contours
ContourLists(pool, n) ==
    {Pick(pool, S, 1) : S \in {T \in SUBSET (1..Len(pool)) : Cardinality(T) <= n}}

\* lines 79-92: _process_contours_to_positions, one item
Position(c, variant) ==
    [center_x |-> c.x + (c.w \div 2),
     y_top |-> c.y,
     bbox |-> <<c.x, c.y, c.w, c.h>>,
     type |-> variant]

RECURSIVE Positions(_, _)
Positions(contours, variant) ==
    IF contours = <<>> THEN <<>>
    ELSE <<Position(Head(contours), variant)>>
         \o Positions(Tail(contours), variant)

\* list.sort(key=center_x): a stable ascending sort
RECURSIVE InsertAsc(_, _)
InsertAsc(sorted, b) ==
    IF sorted = <<>> THEN <<b>>
    ELSE IF Head(sorted).center_x <= b.center_x
         THEN <<Head(sorted)>> \o InsertAsc(Tail(sorted), b)
         ELSE <<b>> \o sorted

RECURSIVE SortedAsc(_)
SortedAsc(bars) ==
    IF bars = <<>> THEN <<>>
    ELSE InsertAsc(SortedAsc(SubSeq(bars, 1, Len(bars) - 1)), bars[Len(bars)])

\* contours of the bright-bar mask: areas on both sides of the limit of 300
IosPool ==
    << Contour(20, 300, 30, 10, 300), Contour(70, 200, 30, 200, 301),
       Contour(120, 250, 30, 150, 4500), Contour(170, 100, 30, 300, 9000),
       Contour(220, 300, 30, 100, 3000) >>

\* line 107: the contours the bright-bar variant keeps
ValidIos(contours_ios) == SelectSeq(contours_ios, LAMBDA c : c.area > 300)

\* lines 100-112: detect_ios_bars
DetectIos(contours_ios) ==
    IF Len(ValidIos(contours_ios)) >= 3
    THEN Positions(ValidIos(contours_ios), "iOS")
    ELSE <<>>

\* contours of the dark-theme mask: three bars on the baseline 400, a bar on
\* the baseline whose width is off, a bar on another baseline, suspects on
\* and off the baseline with widths inside and outside the tolerance, and
\* the frame of the image
DarkPool ==
    << Contour(20, 300, 30, 100, 3000),   \* bar
       Contour(70, 250, 30, 150, 4500),   \* bar
       Contour(120, 352, 32, 50, 1600),   \* bar, bottom 402
       Contour(170, 300, 60, 100, 6000),  \* bar on the baseline, twice as wide
       Contour(270, 140, 30, 60, 1800),   \* bar with its bottom at 200
       Contour(170, 390, 30, 10, 300),    \* flat: suspect, width and baseline fit
       Contour(220, 420, 45, 10, 450),    \* flat: suspect, both at their limits
       Contour(220, 421, 30, 10, 300),    \* flat: suspect, baseline 31 off
       Contour(300, 390, 46, 10, 460),    \* flat: suspect, width 16 off
       Contour(300, 290, 30, 10, 300),    \* flat: suspect, baseline 100 off
       Contour(0, 0, 400, 500, 170000) >> \* the frame

\* index of the first contour of the largest area (np.argmax), 0 if none
ArgMaxArea(contours) ==
    IF contours = <<>> THEN 0
    ELSE CHOOSE i \in 1..Len(contours) :
            /\ \A j \in 1..Len(contours) : contours[j].area <= contours[i].area
            /\ \A j \in 1..(i - 1) : contours[j].area < contours[i].area

\* lines 140-149: a contour covering more than 80% of the image is dropped
FilterFrame(contours, total_area) ==
    LET k == ArgMaxArea(contours)
    IN  IF k # 0 /\ 5 * contours[k].area > 4 * total_area
        THEN SubSeq(contours, 1, k - 1) \o SubSeq(contours, k + 1, Len(contours))
        ELSE contours

\* lines 162-168: too small, too wide, or wider than 2.5 times its height
IsSuspect(c, img_width) ==
    \/ c.h < 5
    \/ c.w < 5
    \/ 10 * c.w > 9 * img_width
    \/ 2 * c.w > 5 * c.h

Filtered(contours) == FilterFrame(contours, BarsImgHeight * BarsImgWidth)

\* lines 151-173: the partition of the filtered contours
Candidates(contours) ==
    SelectSeq(Filtered(contours), LAMBDA c : ~IsSuspect(c, BarsImgWidth))
Suspects(contours) ==
    SelectSeq(Filtered(contours), LAMBDA c : IsSuspect(c, BarsImgWidth))

\* line 184: candidates.sort(key=bottom), stable
RECURSIVE InsertByBottom(_, _)
InsertByBottom(sorted, c) ==
    IF sorted = <<>> THEN <<c>>
    ELSE IF Head(sorted).y + Head(sorted).h <= c.y + c.h
         THEN <<Head(sorted)>> \o InsertByBottom(Tail(sorted), c)
         ELSE <<c>> \o sorted

RECURSIVE SortedByBottom(_)
SortedByBottom(cs) ==
    IF cs = <<>> THEN <<>>
    ELSE InsertByBottom(SortedByBottom(SubSeq(cs, 1, Len(cs) - 1)), cs[Len(cs)])

\* lines 185-193: consecutive candidates less than 30px apart share a row
RECURSIVE GroupRows(_, _, _)
GroupRows(rows, current_row, rest) ==
    IF rest = <<>> THEN Append(rows, current_row)
    ELSE LET c == Head(rest)
             last == current_row[Len(current_row)]
         IN  IF (c.y + c.h) - (last.y + last.h) < 30
             THEN GroupRows(rows, Append(current_row, c), Tail(rest))
             ELSE GroupRows(Append(rows, current_row), <<c>>, Tail(rest))

Rows(cands) ==
    IF cands = <<>> THEN <<>>
    ELSE GroupRows(<<>>, <<Head(SortedByBottom(cands))>>, Tail(SortedByBottom(cands)))

RECURSIVE SumWidths(_)
SumWidths(row) == IF row = <<>> THEN 0 ELSE Head(row).w + SumWidths(Tail(row))

\* line 195: max(rows, key=total width), the first row of the largest total
BestRow(rows) ==
    IF rows = <<>> THEN <<>>
    ELSE rows[CHOOSE i \in 1..Len(rows) :
                 /\ \A j \in 1..Len(rows) : SumWidths(rows[j]) <= SumWidths(rows[i])
                 /\ \A j \in 1..(i - 1) : SumWidths(rows[j]) < SumWidths(rows[i])]

\* the values of a list in ascending order
RECURSIVE InsertInt(_, _)
InsertInt(sorted, v) ==
    IF sorted = <<>> THEN <<v>>
    ELSE IF Head(sorted) <= v THEN <<Head(sorted)>> \o InsertInt(Tail(sorted), v)
         ELSE <<v>> \o sorted

RECURSIVE SortedInts(_)
SortedInts(vs) ==
    IF vs = <<>> THEN <<>>
    ELSE InsertInt(SortedInts(Tail(vs)), Head(vs))

\* twice np.median of a non-empty list of integers
Median2(vs) ==
    LET s == SortedInts(vs)
        n == Len(s)
    IN  IF n % 2 = 1 THEN 2 * s[(n + 1) \div 2]
        ELSE s[n \div 2] + s[n \div 2 + 1]

Widths(row) == [i \in 1..Len(row) |-> row[i].w]
Bottoms(row) == [i \in 1..Len(row) |-> row[i].y + row[i].h]

\* line 209 / 220: abs(w - median_width) <= max(12, median_width * 0.50),
\* with median2 twice the median
IsWidthOk(w, median2) ==
    AbsDiff(4 * w, 2 * median2) <= (IF median2 >= 48 THEN median2 ELSE 48)

\* the baseline left out of the reclaim decision
IsBaselineOkAlways(bottom, baseline2) == TRUE

\* line 221: abs(bottom - baseline_y) <= 30, with baseline2 twice the median
IsBaselineOk(bottom, baseline2) == AbsDiff(2 * bottom, baseline2) <= 60

\* lines 205-212: the members of the row that keep to the median width
KeptOfRow(row) ==
    SelectSeq(row, LAMBDA c : IsWidthOk(c.w, Median2(Widths(row))))

\* lines 214-225: the suspects the reclaim pass takes back
ReclaimedOf(suspects, row) ==
    SelectSeq(suspects,
              LAMBDA c : /\ IsWidthOk(c.w, Median2(Widths(row)))
                         /\ IsBaselineOk(c.y + c.h, Median2(Bottoms(row))))

\* the reclaimed suspects left out of the final list
FinalContoursKeptOnly(kept, reclaimed) == kept

\* lines 212 and 225: final_contours, the kept row members then the
\* reclaimed suspects
FinalContours(kept, reclaimed) == kept \o reclaimed

\* lines 115-234: detect_android_dark_bars
DetectAndroidDark(contours) ==
    LET best_candidates == Candidates(contours)
        best_row == BestRow(Rows(best_candidates))
    IN  IF Len(best_candidates) < 3
        THEN [positions |-> <<>>, reclaimed |-> <<>>]
        ELSE [positions |->
                 Positions(FinalContours(KeptOfRow(best_row),
                                         ReclaimedOf(Suspects(contours), best_row)),
                           "Android"),
              reclaimed |-> ReclaimedOf(Suspects(contours), best_row)]

\* contours of the light-theme mask: domes, a dome below 90% of the height,
\* a shape that is too tall for a dome
LightPool ==
    << Contour(20, 100, 40, 10, 300), Contour(100, 150, 40, 10, 300),
       Contour(180, 200, 40, 12, 350), Contour(260, 460, 40, 10, 300),
       Contour(300, 100, 40, 30, 900), Contour(340, 120, 40, 10, 300) >>

\* lines 283-292: the conditions of a dome
IsDome(c, img_width, img_height) ==
    /\ c.area >= 100
    /\ c.h > 0
    /\ c.w >= 2 * c.h
    /\ c.w <= 10 * c.h
    /\ c.h >= 5
    /\ 10 * c.y <= 9 * img_height
    /\ c.w >= 10
    /\ 10 * c.w <= 3 * img_width

\* lines 237-320: detect_android_light_bars
DetectAndroidLight(contours) ==
    LET dome_candidates ==
            SelectSeq(Filtered(contours),
                      LAMBDA c : IsDome(c, BarsImgWidth, BarsImgHeight))
    IN  IF Len(dome_candidates) >= 3
        THEN SortedAsc(Positions(dome_candidates, "Android-Light"))
        ELSE <<>>

\* the bright-bar variant never counts as successful
IosFoundNever(bars) == FALSE

\* line 338: if bar_positions_ios
IosFound(bars) == bars # <<>>

\* any bar of the dark-theme variant counts as success
DarkFoundAny(bars) == bars # <<>>

\* line 345: len(bar_positions_android_dark) >= 3
DarkFoundEnough(bars) == Len(bars) >= MinBars

\* line 352: if bar_positions_android_light
LightFound(bars) == bars # <<>>

\* the request pipeline's variables while a detector runs on its own
PipelineIdle ==
    /\ entry = "direct"
    /\ request_body = "ok"
    /\ image_input = "path"
    /\ target_day = "Sun"
    /\ loadable = TRUE
    /\ google_api_key = KeyNone
    /\ genai_available = TRUE
    /\ imwrite_raises = FALSE
    /\ temp_files = NoTempFiles
    /\ LocalsInit
    /\ calc_result = NoResult
    /\ result = NoResult
    /\ response = NoResult

InitBars ==
    /\ pc = "bars_ios"
    /\ PipelineIdle
    /\ BarsIdle
    /\ GridIdle
    /\ img = LoadedImage
    /\ debug_img_cropped = NoImage

\* lines 335-341: the bright-bar variant is tried first
DetectIosBars ==
    /\ pc = "bars_ios"
    /\ invoked' = Append(invoked, "iOS")
    /\ \E contours_ios \in ContourLists(IosPool, MaxContours) :
         /\ bar_positions_ios' = DetectIos(contours_ios)
         /\ IF IosFound(DetectIos(contours_ios))
            THEN /\ final_positions' = DetectIos(contours_ios)
                 /\ detection_type' = "iOS"
                 /\ pc' = "bars_draw"
            ELSE /\ pc' = "bars_dark"
                 /\ UNCHANGED <<final_positions, detection_type>>
    /\ UNCHANGED <<contours_dark, bar_positions_android_dark, reclaimed_contours_data,
                   bar_positions_android_light>>
    /\ UNCHANGED <<inputs, locals, calc_result, result, response, grid_state, image_state, temp_files>>

\* lines 342-347: the dark-theme variant, when the bright-bar variant failed
DetectAndroidDarkBars ==
    /\ pc = "bars_dark"
    /\ invoked' = Append(invoked, "Android")
    /\ \E contours \in ContourLists(DarkPool, MaxContours) :
         /\ contours_dark' = contours
         /\ bar_positions_android_dark' = DetectAndroidDark(contours).positions
         /\ reclaimed_contours_data' = DetectAndroidDark(contours).reclaimed
         /\ IF DarkFoundEnough(DetectAndroidDark(contours).positions)
            THEN /\ final_positions' = DetectAndroidDark(contours).positions
                 /\ detection_type' = "Android"
                 /\ pc' = "bars_draw"
            ELSE /\ pc' = "bars_light"
                 /\ UNCHANGED <<final_positions, detection_type>>
    /\ UNCHANGED <<bar_positions_ios, bar_positions_android_light>>
    /\ UNCHANGED <<inputs, locals, calc_result, result, response, grid_state, image_state, temp_files>>

\* lines 348-360: the light-theme variant, when the dark-theme variant failed
DetectAndroidLightBars ==
    /\ pc = "bars_light"
    /\ invoked' = Append(invoked, "Android-Light")
    /\ \E contours \in ContourLists(LightPool, MaxContours) :
         /\ bar_positions_android_light' = DetectAndroidLight(contours)
         /\ IF LightFound(DetectAndroidLight(contours))
            THEN /\ final_positions' = DetectAndroidLight(contours)
                 /\ detection_type' = "Android-Light"
            ELSE /\ final_positions' = <<>>
                 /\ detection_type' = "None"
    /\ pc' = "bars_draw"
    /\ UNCHANGED <<contours_dark, bar_positions_ios, bar_positions_android_dark,
                   reclaimed_contours_data>>
    /\ UNCHANGED <<inputs, locals, calc_result, result, response, grid_state, image_state, temp_files>>

\* lines 362-371: _draw_final_bars sorts the list in place by center_x, then
\* the list is returned without the raw contours
ReturnBars ==
    /\ pc = "bars_draw"
    /\ final_positions' = SortedAsc(final_positions)
    /\ debug_img_cropped' = DrawFinalBars(img, final_positions)
    /\ pc' = "bars_returned"
    /\ UNCHANGED <<contours_dark, invoked, bar_positions_ios,
                   bar_positions_android_dark, reclaimed_contours_data,
                   bar_positions_android_light, detection_type>>
    /\ UNCHANGED <<inputs, locals, calc_result, result, response, grid_state, img, temp_files>>

NextBars ==
    \/ DetectIosBars
    \/ DetectAndroidDarkBars
    \/ DetectAndroidLightBars
    \/ ReturnBars

SpecBars == InitBars /\ [][NextBars]_vars

----------------------------------------------------------------------------
(* The grid detector: find_graph_area, lines 650-794, on its own.  A pass   *)
(* works on the sorted y positions its line extraction yields.  The         *)
(* standard deviation of a cluster's spacings is kept to two decimals, a    *)
(* score is the pair <<numerator, denominator>> of score / 1000.            *)

\* most lines one pass yields
MaxLadderLines == 10

\* line 674
MIN_SPACING == 25
\* line 707
MAX_SPACING == 300
\* line 675
MAX_LINES_IN_CLUSTER == 9
\* line 696
DELTA_TOLERANCE == 6
\* line 662: the number of strategies
NumPasses == 4

GridHeights == {1000, 2000}

\* n lines, step apart, from start on
Ladder(start, step, n) == [i \in 1..n |-> start + (i - 1) * step]

\* what _find_graph_grid_internal yields for 'horizontal' in one pass:
\* strictly increasing positions inside the image, at least 10 apart
\* (_cluster_lines merges closer ones)
GridLineLists(h) ==
    IF h = 1000
    THEN {<<>>, <<200, 300>>,
          Ladder(200, 100, 4), Ladder(350, 100, 4), Ladder(400, 100, 4),
          Ladder(450, 100, 4), Ladder(500, 100, 4),
          <<150, 250, 353, 450, 900>>,
          <<100, 130, 160, 190>>,
          Ladder(150, 30, MaxLadderLines)}
    ELSE {<<>>, Ladder(400, 200, 4), Ladder(1000, 200, 4), <<1930, 1965, 1999>>}

\* lines 658-660 and 700: Y_MIN_BOUND < line < Y_MAX_BOUND
InBand(line, h) == 10 * line > h /\ 100 * line < 98 * h

\* line 707: MIN_SPACING < delta < 300
SpacingOk(delta) == MIN_SPACING < delta /\ delta < MAX_SPACING

\* lines 700 and 707: the seed pair the loops go on with; only the first
\* line of the pair is compared with the band
SeedOk(lines, i, j, h) == InBand(lines[i], h) /\ SpacingOk(lines[j] - lines[i])

\* lines 713-721: the cluster grown from a seed pair over the later lines
RECURSIVE Extend(_, _, _, _, _)
Extend(lines, current_cluster, current_line, delta, k) ==
    IF k > Len(lines) THEN current_cluster
    ELSE LET next_line_candidate == lines[k]
             expected_line == current_line + delta
         IN  IF AbsDiff(next_line_candidate, expected_line) < DELTA_TOLERANCE
             THEN Extend(lines, Append(current_cluster, next_line_candidate),
                         next_line_candidate, delta, k + 1)
             ELSE IF next_line_candidate > expected_line + DELTA_TOLERANCE
             THEN current_cluster
             ELSE Extend(lines, current_cluster, current_line, delta, k + 1)

ClusterOf(lines, i, j) ==
    Extend(lines, <<lines[i], lines[j]>>, lines[j], lines[j] - lines[i], j + 1)

\* no limit on the size of a cluster
WithinCapAlways(cluster) == TRUE

\* line 724: a cluster of more than MAX_LINES_IN_CLUSTER lines is dropped
WithinCap(cluster) == Len(cluster) <= MAX_LINES_IN_CLUSTER

\* lines 698-724: the clusters of a pass that reach the scoring, in the
\* order of the loops over i and j
RECURSIVE ScoredFrom(_, _, _, _)
ScoredFrom(lines, h, i, j) ==
    IF i > Len(lines) THEN <<>>
    ELSE IF j > Len(lines) THEN ScoredFrom(lines, h, i + 1, i + 2)
    ELSE (IF /\ SeedOk(lines, i, j, h)
             /\ Len(ClusterOf(lines, i, j)) >= 3
             /\ WithinCap(ClusterOf(lines, i, j))
          THEN <<ClusterOf(lines, i, j)>> ELSE <<>>)
         \o ScoredFrom(lines, h, i, j + 1)

\* np.diff
Diffs(cluster) == [i \in 1..(Len(cluster) - 1) |-> cluster[i + 1] - cluster[i]]

RECURSIVE SumSeq(_)
SumSeq(vs) == IF vs = <<>> THEN 0 ELSE Head(vs) + SumSeq(Tail(vs))

RECURSIVE SumSquares(_)
SumSquares(vs) == IF vs = <<>> THEN 0 ELSE Head(vs) * Head(vs) + SumSquares(Tail(vs))

\* the largest r in lo..hi with r * r <= x
RECURSIVE ISqrtBetween(_, _, _)
ISqrtBetween(x, lo, hi) ==
    IF lo = hi THEN lo
    ELSE LET mid == (lo + hi + 1) \div 2
         IN  IF mid * mid <= x THEN ISqrtBetween(x, mid, hi)
             ELSE ISqrtBetween(x, lo, mid - 1)

\* line 728: np.std of the spacings, in hundredths, rounded down
Std100(cluster) ==
    LET ds == Diffs(cluster)
        m == Len(ds)
    IN  ISqrtBetween((10000 * (m * SumSquares(ds) - SumSeq(ds) * SumSeq(ds)))
                        \div (m * m), 0, 10000)

\* every cluster gets the same factor
LocationMultiplierFlat(cluster_bottom, h) == 10

\* lines 733-745: ten times the location multiplier (0.1, 0.8 or 1.2)
LocationMultiplier10(cluster_bottom, h) ==
    IF 100 * cluster_bottom > 75 * h THEN 1
    ELSE IF 100 * cluster_bottom > 65 * h THEN 8
    ELSE 12

\* lines 731-747: final_score / 1000 =
\* len^3 * 100 / (std_dev + 0.5) * location_multiplier / 1000
Score(cluster, h) ==
    << Len(cluster) * Len(cluster) * Len(cluster)
          * LocationMultiplier10(cluster[Len(cluster)], h),
       Std100(cluster) + 50 >>

\* a > b for scores
ScoreGreater(a, b) == a[1] * b[2] > b[1] * a[2]

\* line 695: best_cluster_this_pass = None, best_score_this_pass = 0
NoCluster == [cluster |-> <<>>, score |-> <<0, 1>>]

\* lines 749-757: the first cluster of the largest score
RECURSIVE BestOfPass(_, _, _)
BestOfPass(clusters, h, best) ==
    IF clusters = <<>> THEN best
    ELSE BestOfPass(Tail(clusters), h,
                    IF ScoreGreater(Score(Head(clusters), h), best.score)
                    THEN [cluster |-> Head(clusters), score |-> Score(Head(clusters), h)]
                    ELSE best)

\* the first pass's cluster wins, whatever the scores
FirstCandidate(candidates) == candidates[1]

\* line 776: max(all_passes_candidates, key=score), the first of the largest
BestCandidate(candidates) ==
    candidates[CHOOSE i \in 1..Len(candidates) :
                  /\ \A j \in 1..Len(candidates) :
                        ~ScoreGreater(candidates[j].score, candidates[i].score)
                  /\ \A j \in 1..(i - 1) :
                        ScoreGreater(candidates[i].score, candidates[j].score)]

\* min() and max() of a non-empty list
MinOf(vs) == CHOOSE v \in {vs[i] : i \in 1..Len(vs)} : \A i \in 1..Len(vs) : v <= vs[i]
MaxOf(vs) == CHOOSE v \in {vs[i] : i \in 1..Len(vs)} : \A i \in 1..Len(vs) : v >= vs[i]

InitGrid ==
    /\ pc = "grid_pass"
    /\ entry = "direct"
    /\ request_body = "ok"
    /\ image_input = "path"
    /\ target_day = "Sun"
    /\ loadable = TRUE
    /\ google_api_key = KeyNone
    /\ genai_available = TRUE
    /\ imwrite_raises = FALSE
    /\ temp_files = NoTempFiles
    /\ image_height \in GridHeights
    /\ zero_line_y = NoneInt
    /\ max_line_y = NoneInt
    /\ crop_top = 0
    /\ crop_bottom = 0
    /\ semantic_data = [X_axis |-> <<>>, Y_axisTopValue |-> <<>>]
    /\ max_value_minutes = <<0, 1>>
    /\ scale_minutes_per_px = <<0, 1>>
    /\ detected_bars_cropped = <<>>
    /\ bars_rtl = <<>>
    /\ day_value_map = EmptyDict
    /\ map_built = FALSE
    /\ bar_index = 0
    /\ label_pos = 0
    /\ extract_calls = 0
    /\ detect_calls = 0
    /\ use_mock = FALSE
    /\ external_calls = 0
    /\ exception = NoneVal
    /\ calc_result = NoResult
    /\ result = NoResult
    /\ response = NoResult
    /\ BarsIdle
    /\ img = LoadedImage
    /\ debug_img_cropped = NoImage
    /\ grid_pass = 1
    /\ lines_sorted = <<>>
    /\ scored = {}
    /\ all_passes_candidates = <<>>
    /\ grid_result = NoResult

\* lines 679-760: one strategy's pass
GridPass ==
    /\ pc = "grid_pass"
    /\ grid_pass <= NumPasses
    /\ \E lines \in GridLineLists(image_height) :
         /\ lines_sorted' = lines
         /\ IF Len(lines) < 3
            THEN UNCHANGED <<scored, all_passes_candidates>>
            ELSE LET clusters == ScoredFrom(lines, image_height, 1, 2)
                     best_cluster_this_pass == BestOfPass(clusters, image_height, NoCluster)
                 IN  /\ scored' = scored \cup {clusters[i] : i \in 1..Len(clusters)}
                     /\ all_passes_candidates' =
                           IF best_cluster_this_pass.cluster # <<>>
                           THEN Append(all_passes_candidates, best_cluster_this_pass)
                           ELSE all_passes_candidates
    /\ grid_pass' = grid_pass + 1
    /\ UNCHANGED <<pc, grid_result>>
    /\ UNCHANGED <<inputs, locals, calc_result, result, response, bar_state, image_state, temp_files>>

\* lines 762-794: the summary
GridSummary ==
    /\ pc = "grid_pass"
    /\ grid_pass > NumPasses
    /\ grid_result' =
          IF all_passes_candidates = <<>>
          THEN [y_top |-> NoneInt, y_bottom |-> NoneInt, lines |-> <<>>, avg_delta2 |-> 0]
          ELSE LET best_cluster == BestCandidate(all_passes_candidates).cluster
               IN  [y_top |-> MinOf(best_cluster),
                    y_bottom |-> MaxOf(best_cluster),
                    lines |-> best_cluster,
                    avg_delta2 |-> Median2(Diffs(best_cluster))]
    /\ pc' = "grid_done"
    /\ UNCHANGED <<grid_pass, lines_sorted, scored, all_passes_candidates>>
    /\ UNCHANGED <<inputs, locals, calc_result, result, response, bar_state, image_state, temp_files>>

NextGrid == GridPass \/ GridSummary

SpecGrid == InitGrid /\ [][NextGrid]_vars

----------------------------------------------------------------------------
(* Properties *)

SuccessFields == {"day", "minutes", "found", "metadata"}

IsErrorRecord(rec) == "error" \in DOMAIN rec /\ (DOMAIN rec) \cap SuccessFields = {}

\* calculate_minutes_for_day returned one of its two error results
ComputeFailed == "error" \in DOMAIN calc_result

LoadError ==
    ComputeFailed /\ calc_result.error = "Image could not be loaded"
GridError ==
    ComputeFailed /\ calc_result.error = "Failed to detect graph grid lines"

\* calculate_minutes_for_day returned its success record
ComputeSucceeded == "full_map" \in DOMAIN calc_result

\* C1: when image loading or grid detection fails, the record process_day
\* returns, and the HTTP response built from it, carries an error field and
\* none of the fields day, minutes, found, metadata.
C1_FailureGivesErrorRecord ==
    /\ (pc \in {"returned", "responded"} /\ ComputeFailed) => IsErrorRecord(result)
    /\ (pc = "responded" /\ ComputeFailed) => IsErrorRecord(response)

\* C2: when the grid detector finds no valid cluster, the compute returns its
\* error at once: the label source and the bar detector have not been called
\* and no day-value map has been built; conversely they only ever run on a
\* detected grid.
C2_GridFailureStopsCompute ==
    /\ GridError =>
          /\ extract_calls = 0
          /\ detect_calls = 0
          /\ ~map_built
          /\ DOMAIN day_value_map = {}
    /\ (extract_calls > 0 \/ detect_calls > 0 \/ map_built) =>
          /\ zero_line_y # NoneInt
          /\ max_line_y # NoneInt
          /\ ~ComputeFailed

\* a request whose grid detection failed has returned
C2_Witness == pc = "calc_done" /\ GridError /\ loadable

\* C3: whatever the kind of image_input, the record process_day returns has
\* the fields {day, minutes, found, metadata} or the single field error.
C3_DocumentedShapes ==
    pc \in {"returned", "responded"} /\ "pending" \notin DOMAIN result =>
        \/ DOMAIN result = SuccessFields
        \/ DOMAIN result = {"error"}

----------------------------------------------------------------------------
(* The walk over the labels *)

Labels == semantic_data.X_axis

\* number of labels before position i whose has_bar is true
TrueBefore(i) == Cardinality({j \in 1..(i - 1) : Labels[j].has_bar = "true"})

\* no label walked after position i has the day name of label i
LastWalked(i) == \A j \in (i + 1)..label_pos : Labels[j].label # Labels[i].label

\* pixel height of a bar in the original frame
PixelsOf(bar) == zero_line_y - (crop_top + bar.y_top)

Occurrences(seq, x) == Cardinality({i \in 1..Len(seq) : seq[i] = x})

Walking == map_built /\ pc \in {"map", "calc_done"}

\* C4: the k-th label with has_bar = true is paired with the k-th bar in
\* descending center-x order, a bar is consumed by at most one label, and a
\* label with has_bar = false consumes no bar and gets minutes = 0 and
\* pixels = 0.  (An entry is read from the map while no later label of the
\* same day name has overwritten it.)
C4_PairingInOrder ==
    Walking =>
        \* bars_rtl is the detected bars in descending center-x order
        /\ Len(bars_rtl) = Len(detected_bars_cropped)
        /\ \A i \in 1..Len(bars_rtl) :
              Occurrences(bars_rtl, bars_rtl[i]) =
                 Occurrences(detected_bars_cropped, bars_rtl[i])
        /\ \A i \in 1..(Len(bars_rtl) - 1) :
              bars_rtl[i].center_x >= bars_rtl[i + 1].center_x
        \* the bars consumed so far: one per true-label, none for the others
        /\ bar_index = Min(TrueBefore(label_pos + 1), Len(bars_rtl))
        /\ \A i \in 1..label_pos :
              LastWalked(i) =>
                 LET e == day_value_map[Labels[i].label]
                 IN  IF Labels[i].has_bar = "true"
                     THEN TrueBefore(i) < Len(bars_rtl) =>
                             e.pixels = PixelsOf(bars_rtl[TrueBefore(i) + 1])
                     ELSE e.minutes = 0 /\ e.pixels = 0

\* true, false, true, true over three bars at three different x: the false
\* label is skipped and the third true-label has the leftmost bar
C4_Witness ==
    /\ pc = "calc_done"
    /\ Len(Labels) = 4
    /\ Labels[1].has_bar = "true" /\ Labels[2].has_bar = "false"
    /\ Labels[3].has_bar = "true" /\ Labels[4].has_bar = "true"
    /\ Labels[1].label = "Mon" /\ Labels[3].label = "Tue" /\ Labels[4].label = NoneVal
    /\ Len(bars_rtl) = 3
    /\ bars_rtl[1].center_x > bars_rtl[2].center_x
    /\ bars_rtl[2].center_x > bars_rtl[3].center_x
    /\ bars_rtl[1].y_top # bars_rtl[2].y_top
    /\ bar_index = 3
    /\ day_value_map[NoneVal].pixels = PixelsOf(bars_rtl[3])
    /\ day_value_map["Sun"].pixels = 0

NumTrue == TrueBefore(Len(Labels) + 1)

\* C5: with more true-labels than detected bars the compute still succeeds:
\* a true-label beyond the last bar gets {minutes: 0, pixels: 0}, the earlier
\* true-labels keep their bars, and every label has an entry in the map.
C5_MismatchIsNotFatal ==
    (Walking /\ NumTrue > Len(bars_rtl)) =>
        /\ \A i \in 1..label_pos :
              /\ Labels[i].label \in DOMAIN day_value_map
              /\ (LastWalked(i) /\ Labels[i].has_bar = "true") =>
                    LET e == day_value_map[Labels[i].label]
                    IN  IF TrueBefore(i) >= Len(bars_rtl)
                        THEN e = [minutes |-> 0, pixels |-> 0]
                        ELSE e = [minutes |-> RoundedMinutes(
                                                 PixelsOf(bars_rtl[TrueBefore(i) + 1]),
                                                 scale_minutes_per_px),
                                  pixels |-> PixelsOf(bars_rtl[TrueBefore(i) + 1])]
        /\ pc = "calc_done" =>
              /\ ComputeSucceeded
              /\ calc_result.full_map = day_value_map
              /\ label_pos = Len(Labels)

\* four true-labels of four day names over three bars
C5_Witness ==
    /\ pc = "calc_done"
    /\ Len(Labels) = 4
    /\ \A i \in 1..4 : Labels[i].has_bar = "true"
    /\ Labels[1].label = "Sun" /\ Labels[2].label = "Mon"
    /\ Labels[3].label = "Tue" /\ Labels[4].label = NoneVal
    /\ Len(bars_rtl) = 3
    /\ calc_result.full_map[NoneVal] = [minutes |-> 0, pixels |-> 0]
    /\ calc_result.full_map["Tue"].pixels = PixelsOf(bars_rtl[3])
    /\ calc_result.full_map["Tue"].pixels > 0
    /\ Cardinality(DOMAIN calc_result.full_map) = 4

\* C6 as stated: after a successful compute the map has exactly one entry per
\* label of the list, also when a day name repeats or a label field is absent.
C6_OneEntryPerLabel ==
    (pc = "calc_done" /\ ComputeSucceeded) =>
        Cardinality(DOMAIN calc_result.full_map) = Len(Labels)

LabelNames == {Labels[i].label : i \in 1..Len(Labels)}

\* C6 amended: after a successful compute the map has exactly one entry per
\* distinct day name of the list, matched or not; labels without a label
\* field share the None key.
C6_OneEntryPerDayName ==
    (pc = "calc_done" /\ ComputeSucceeded) =>
        /\ DOMAIN calc_result.full_map = LabelNames
        /\ \A n \in LabelNames :
              DOMAIN calc_result.full_map[n] = {"minutes", "pixels"}

\* a list that repeats a day name and has a label without a name, with
\* unmatched labels
C6_Witness ==
    /\ pc = "calc_done" /\ ComputeSucceeded
    /\ Len(Labels) = 4
    /\ Labels[1].label = "Sun" /\ Labels[3].label = "Sun"
    /\ Labels[2].label = NoneVal /\ Labels[4].label = "Mon"
    /\ bars_rtl = <<>>
    /\ DOMAIN calc_result.full_map = {"Sun", "Mon", NoneVal}

----------------------------------------------------------------------------
(* The scale and the minutes *)

RawTopValue == semantic_data.Y_axisTopValue

NumDots(str) == Cardinality({i \in 1..Len(str) : str[i] = "."})
NumDigits(str) == Cardinality({i \in 1..Len(str) : str[i] \in Digits})

\* no number can be read from the string: no digit, or several points
Unparseable(str) == NumDigits(str) = 0 \/ NumDots(str) > 1

PixelSpan == zero_line_y - max_line_y

\* the rational <<n, d>> equals a / b
RatEq(r, a, b) == r[1] * b = a * r[2]

\* C7: the scale is topValue / (zeroLineY - maxLineY) when the parsed axis
\* value and the pixel span are both positive and exactly 0 otherwise (a
\* non-positive span or value, an empty or unparseable string such as ".",
\* "1.2.3" or a sentinel); it is never negative and has no zero denominator.
C7_ScaleFactor ==
    pc = "detect" =>
        /\ max_value_minutes[2] > 0 /\ max_value_minutes[1] >= 0
        /\ scale_minutes_per_px[2] > 0 /\ scale_minutes_per_px[1] >= 0
        /\ IF max_value_minutes[1] > 0 /\ PixelSpan > 0
           THEN RatEq(scale_minutes_per_px,
                      max_value_minutes[1], max_value_minutes[2] * PixelSpan)
           ELSE scale_minutes_per_px[1] = 0
        /\ Unparseable(RawTopValue) =>
              max_value_minutes[1] = 0 /\ scale_minutes_per_px[1] = 0
        /\ RawTopValue = <<"2", "4", "0">> => RatEq(max_value_minutes, 240, 1)
        /\ RawTopValue = <<"2", ".", "4">> => RatEq(max_value_minutes, 24, 10)
        /\ RawTopValue = <<".", "0", "4">> => RatEq(max_value_minutes, 4, 100)
        /\ RawTopValue = <<"4", ".">> => RatEq(max_value_minutes, 4, 1)
        /\ RawTopValue = <<"2", "k", "4">> => RatEq(max_value_minutes, 24, 1)
        /\ RawTopValue = <<"1", ".", "5", "k">> => RatEq(max_value_minutes, 15, 10)

\* "1.2.3" over a positive span: the conversion fails and the scale is 0
C7_Witness ==
    /\ pc = "detect"
    /\ RawTopValue = <<"1", ".", "2", ".", "3">>
    /\ PixelSpan > 0
    /\ scale_minutes_per_px[1] = 0

\* the label walked last consumed a bar
LastLabelMatched ==
    /\ label_pos > 0
    /\ Labels[label_pos].has_bar = "true"
    /\ TrueBefore(label_pos) < Len(bars_rtl)

LastBar == bars_rtl[TrueBefore(label_pos) + 1]

Abs(x) == IF x >= 0 THEN x ELSE 0 - x

\* C8: for a matched bar pixels = zeroLineY - (cropTop + the bar's top in the
\* crop) and minutes is pixels x topValue / (zeroLineY - maxLineY) to the
\* nearest tenth; zeroLineY 500, maxLineY 100, axis value 240 and a bar top
\* at 300 give scale 0.6, 200 pixels and 120.0 minutes.
C8_MinutesArithmetic ==
    (pc = "map" /\ LastLabelMatched) =>
        LET e == day_value_map[Labels[label_pos].label]
            exact_num == 10 * e.pixels * max_value_minutes[1]
            exact_den == max_value_minutes[2] * PixelSpan
        IN  /\ e.pixels = zero_line_y - (crop_top + LastBar.y_top)
            /\ PixelSpan > 0
            /\ 2 * Abs(e.minutes * exact_den - exact_num) <= exact_den
            /\ ( /\ zero_line_y = 500 /\ max_line_y = 100
                 /\ RatEq(max_value_minutes, 240, 1)
                 /\ crop_top + LastBar.y_top = 300 ) =>
                  /\ RatEq(scale_minutes_per_px, 6, 10)
                  /\ e.pixels = 200
                  /\ e.minutes = 1200

\* the example of the claim
C8_Witness ==
    /\ pc = "map" /\ LastLabelMatched
    /\ zero_line_y = 500 /\ max_line_y = 100
    /\ RawTopValue = <<"2", "4", "0">>
    /\ crop_top + LastBar.y_top = 300
    /\ day_value_map[Labels[label_pos].label] = [minutes |-> 1200, pixels |-> 200]

\* C9: on a successful compute the minutes returned are those of the target
\* day's entry when the day is a key of the map, and 0 otherwise; found is
\* true exactly when the target day is a key of the map.
C9_TargetDayLookup ==
    /\ (pc \in {"calc_done", "returned", "responded"} /\ ComputeSucceeded) =>
          /\ calc_result.full_map = day_value_map
          /\ calc_result.minutes =
                (IF target_day \in DOMAIN day_value_map
                 THEN day_value_map[target_day].minutes ELSE 0)
    /\ (pc \in {"returned", "responded"} /\ ComputeSucceeded /\ image_input = "path") =>
          /\ result.day = target_day
          /\ result.found = (target_day \in DOMAIN day_value_map)
          /\ result.minutes =
                (IF target_day \in DOMAIN day_value_map
                 THEN day_value_map[target_day].minutes ELSE 0)
          /\ (target_day \notin DOMAIN day_value_map) =>
                (result.minutes = 0 /\ result.found = FALSE)

\* the target day is a label without a bar: 0 minutes, and found
C9_Witness ==
    /\ pc = "returned" /\ ComputeSucceeded /\ image_input = "path"
    /\ target_day \in DOMAIN day_value_map
    /\ day_value_map[target_day].minutes = 0
    /\ result.found = TRUE
    /\ result.minutes = 0

SemanticExtractionFailed ==
    Labels = <<>> /\ RawTopValue \in {JSON_PARSE_FAILED, KEY_MISSING}

\* C10: once the grid is detected nothing aborts the request: with zero bars,
\* with a failed semantic extraction (no label, a sentinel axis value) or
\* with an unparseable axis value the compute returns its success record,
\* the map has an entry for every label, and every entry's minutes is 0.
C10_GracefulDegradation ==
    (pc \in {"calc_done", "returned", "responded"} /\ extract_calls > 0) =>
        /\ ComputeSucceeded
        /\ \A i \in 1..Len(Labels) : Labels[i].label \in DOMAIN calc_result.full_map
        /\ (bars_rtl = <<>> \/ SemanticExtractionFailed \/ Unparseable(RawTopValue)) =>
              \A n \in DOMAIN calc_result.full_map : calc_result.full_map[n].minutes = 0

----------------------------------------------------------------------------
(* The label source *)

\* the service was constructed without a credential: the key is absent,
\* empty, or made of whitespace only
CredentialMissing ==
    \/ "none" \in DOMAIN google_api_key
    \/ \A i \in 1..Len(google_api_key.chars) : google_api_key.chars[i] \in Whitespace

\* C11: without a credential (key absent, empty or whitespace-only) no
\* external call is ever made, and once the label source has been called
\* in a request what it returned is the fixed canned response
C11_NoCredentialUsesCannedResponse ==
    CredentialMissing =>
        /\ external_calls = 0
        /\ extract_calls > 0 => semantic_data = MOCK_GEMINI_OUTPUT /\ use_mock

\* a request served with a whitespace-only key has been through the label
\* source and the walk
C11_Witness ==
    /\ CredentialMissing
    /\ "chars" \in DOMAIN google_api_key
    /\ google_api_key.chars # <<>>
    /\ extract_calls = 1
    /\ pc = "responded"
    /\ response.status = 200

\* C12: whatever the model replied, the label list the walk consumes is a
\* list of label objects (malformed values replaced by safe defaults) and
\* no exception leaves calculate_minutes_for_day
C12_MalformedResponseIsSafe ==
    /\ exception = NoneVal
    /\ extract_calls > 0 => WellFormedLabels(semantic_data.X_axis)

----------------------------------------------------------------------------
(* The bar detector *)

ChainOrder == <<"iOS", "Android", "Android-Light">>

\* C13: the variants are invoked in the order bright-bar, dark-theme,
\* light-theme, each only after every earlier one returned fewer than 3
\* bars; once the bright-bar variant has returned at least 3 bars the other
\* two are never invoked
C13_FallbackOrder ==
    /\ Len(invoked) <= 3
    /\ \A i \in 1..Len(invoked) : invoked[i] = ChainOrder[i]
    /\ Len(invoked) >= 2 => Len(bar_positions_ios) < 3
    /\ Len(invoked) >= 3 => Len(bar_positions_android_dark) < 3
    /\ Len(bar_positions_ios) >= 3 => invoked = <<"iOS">>

\* the detector has returned the bright-bar variant's bars
C13_Witness ==
    /\ pc = "bars_returned"
    /\ Len(bar_positions_ios) >= 3
    /\ invoked = <<"iOS">>
    /\ detection_type = "iOS"

Elements(seq) == {seq[i] : i \in 1..Len(seq)}

\* the result of the first variant, in the chain's order, that found 3 bars
FirstFound ==
    IF Len(bar_positions_ios) >= 3 THEN bar_positions_ios
    ELSE IF Len(bar_positions_android_dark) >= 3 THEN bar_positions_android_dark
    ELSE IF Len(bar_positions_android_light) >= 3 THEN bar_positions_android_light
    ELSE <<>>

\* C15: the list detect_bars_positions returns is empty (variant None), or
\* it holds at least 3 bars that are exactly the bars of the first variant
\* in the order that found at least 3, all of that variant's type; it never
\* holds 1 or 2 bars
C15_SingleVariantOrNone ==
    pc = "bars_returned" =>
        /\ Len(final_positions) \notin {1, 2}
        /\ Elements(final_positions) = Elements(FirstFound)
        /\ Len(final_positions) = Len(FirstFound)
        /\ \A i \in 1..Len(final_positions) : final_positions[i].type = detection_type
        /\ final_positions = <<>> <=> detection_type = "None"

\* the dark-theme variant found 1 or 2 bars, which were dropped for the
\* light-theme variant's bars
C15_Witness ==
    /\ pc = "bars_returned"
    /\ Len(bar_positions_android_dark) \in {1, 2}
    /\ detection_type = "Android-Light"
    /\ Len(final_positions) >= 3

\* the dark-theme variant's baseline row and its suspects
DarkRow == BestRow(Rows(Candidates(contours_dark)))
DarkSuspects == Suspects(contours_dark)

\* the dark-theme variant ran and reached its reclaim pass
ReclaimPassRan == Len(invoked) >= 2 /\ Len(Candidates(contours_dark)) >= 3

\* four times the distance of a suspect's width from the row's median width
WidthDeviation4(c) == 2 * AbsDiff(2 * c.w, Median2(Widths(DarkRow)))
\* four times max(12, half the median row width)
WidthTolerance4 ==
    IF Median2(Widths(DarkRow)) > 48 THEN Median2(Widths(DarkRow)) ELSE 48
\* twice the distance of a suspect's bottom from the row's median baseline
BaselineDeviation2(c) == AbsDiff(2 * (c.y + c.h), Median2(Bottoms(DarkRow)))

DarkSucceeded == Len(invoked) >= 2 /\ detection_type = "Android"

\* the size of the final set as the rule describes it: the members of the
\* baseline row within the width tolerance and the suspects that pass the
\* reclaim conditions
FinalSetSize ==
    IF Candidates(contours_dark) = <<>> THEN 0
    ELSE Len(KeptOfRow(DarkRow)) + Len(ReclaimedOf(DarkSuspects, DarkRow))

\* C18 as stated: the dark-theme variant succeeds if and only if the kept
\* row members together with the reclaimable suspects are at least 3
C18_SucceedsIffFinalSetOfThree ==
    Len(invoked) >= 2 => (DarkSucceeded <=> FinalSetSize >= 3)

\* C18 amended: the dark-theme variant succeeds if and only if at least 3
\* contours pass the shape filters as candidates and the kept row members
\* together with the reclaimed suspects are at least 3; its bars are then
\* exactly these contours, the reclaimed ones included
C18_SucceedsIffGateAndFinalSet ==
    Len(invoked) >= 2 =>
        /\ DarkSucceeded <=>
              (Len(Candidates(contours_dark)) >= 3 /\ FinalSetSize >= 3)
        /\ DarkSucceeded =>
              /\ Len(bar_positions_android_dark) = FinalSetSize
              /\ \A i \in 1..Len(reclaimed_contours_data) :
                    Position(reclaimed_contours_data[i], "Android")
                       \in Elements(bar_positions_android_dark)

\* the variant succeeded with exactly 3 bars, one of them reclaimed
C18_Witness ==
    /\ DarkSucceeded
    /\ Len(bar_positions_android_dark) = 3
    /\ Len(reclaimed_contours_data) = 1

----------------------------------------------------------------------------
(* The grid detector *)

GridSucceeded == pc = "grid_done" /\ grid_result.y_top # NoneInt

\* C14: when the grid detector succeeds its winning cluster has at least 3
\* and at most 9 lines in strictly increasing y order, y_top is its first
\* and y_bottom its last line, y_top < y_bottom, and its spacing (the median
\* of the consecutive differences) is positive
C14_WinnerWellFormed ==
    GridSucceeded =>
        LET best_cluster == grid_result.lines
        IN  /\ Len(best_cluster) >= 3
            /\ Len(best_cluster) <= 9
            /\ \A i \in 1..(Len(best_cluster) - 1) : best_cluster[i] < best_cluster[i + 1]
            /\ grid_result.y_top = best_cluster[1]
            /\ grid_result.y_bottom = best_cluster[Len(best_cluster)]
            /\ grid_result.y_top < grid_result.y_bottom
            /\ grid_result.avg_delta2 > 0

\* a winner of exactly 9 lines, from a pass that yielded more lines
C14_Witness ==
    /\ GridSucceeded
    /\ Len(grid_result.lines) = 9
    /\ Len(lines_sorted) > 9

\* C16: the winner is one of the clusters that reached the scoring in some
\* pass, and none of them, from any seed pair of any pass, has a strictly
\* greater score; the detector fails only when no cluster was scored
C16_WinnerHasMaximumScore ==
    pc = "grid_done" =>
        /\ GridSucceeded <=> scored # {}
        /\ GridSucceeded =>
              /\ grid_result.lines \in scored
              /\ \A c \in scored :
                    ~ScoreGreater(Score(c, image_height),
                                  Score(grid_result.lines, image_height))

\* the winner comes from a later pass and beats the first pass's cluster
C16_Witness ==
    /\ GridSucceeded
    /\ Len(all_passes_candidates) >= 2
    /\ ScoreGreater(Score(grid_result.lines, image_height),
                    all_passes_candidates[1].score)
    /\ Cardinality(scored) >= 3

\* C19: every scored cluster is seeded by two lines that both lie strictly
\* between 10% and 98% of the image height and are more than 25 and less
\* than 300 apart
C19_SeedsInsideBand ==
    \A c \in scored :
        /\ 10 * c[1] > image_height /\ 100 * c[1] < 98 * image_height
        /\ 10 * c[2] > image_height /\ 100 * c[2] < 98 * image_height
        /\ c[2] - c[1] > 25
        /\ c[2] - c[1] < 300

\* clusters of the same number of lines and the same spacings
SameShape(a, b) == Len(a) = Len(b) /\ Diffs(a) = Diffs(b)

\* the zone a cluster's bottom line falls in
EndsAtOrAbove65(c) == 100 * c[Len(c)] <= 65 * image_height
EndsBelow75(c) == 100 * c[Len(c)] > 75 * image_height
EndsBetween(c) == ~EndsAtOrAbove65(c) /\ ~EndsBelow75(c)

\* score a : score b = p : q
ScoreRatio(a, b, p, q) == q * a[1] * b[2] = p * b[1] * a[2]

\* C20: of two scored clusters of the same size and spacings, the one
\* ending at or above 65% of the height scores strictly higher than the one
\* ending below 75% (1.2 against 0.1 times the base score), and one ending
\* in between scores strictly between the two (0.8 times the base score)
C20_LocationOrdersScores ==
    \A a \in scored : \A b \in scored :
        SameShape(a, b) =>
            LET sa == Score(a, image_height)
                sb == Score(b, image_height)
            IN  /\ (EndsAtOrAbove65(a) /\ EndsBelow75(b)) =>
                      ScoreGreater(sa, sb) /\ ScoreRatio(sa, sb, 12, 1)
                /\ (EndsAtOrAbove65(a) /\ EndsBetween(b)) =>
                      ScoreGreater(sa, sb) /\ ScoreRatio(sa, sb, 12, 8)
                /\ (EndsBetween(a) /\ EndsBelow75(b)) =>
                      ScoreGreater(sa, sb) /\ ScoreRatio(sa, sb, 8, 1)

\* the same 4-line ladder was scored in all three zones: ending at 50%, at
\* exactly 65%, at exactly 75% and at 80% of the height
C20_Witness ==
    /\ image_height = 1000
    /\ {Ladder(200, 100, 4), Ladder(350, 100, 4), Ladder(450, 100, 4),
        Ladder(500, 100, 4)} \subseteq scored
    /\ pc = "grid_done"

\* C21: the loaded source image is never mutated during a request: whenever
\* calculate_minutes_for_day has returned with an image loaded, img holds the
\* pixels the loader returned.
C21_SourceImageUnchanged ==
    (pc \in {"calc_done", "returned", "responded"} /\ img # NoImage)
        => img = LoadedImage

\* C22: in every entry of the day-value map pixelHeight and minutes are >= 0,
\* for every bar position the detector reports inside the crop window.
C22_NonNegativeEntries ==
    map_built =>
        \A day_name \in DOMAIN day_value_map :
            /\ day_value_map[day_name].pixels >= 0
            /\ day_value_map[day_name].minutes >= 0

\* C23: the choice between the real and the canned label source depends only
\* on credential presence: a request takes its label data from the canned
\* source exactly when no credential is configured, so with a credential
\* configured the canned response is never used.
C23_SourceDependsOnCredentialOnly ==
    extract_calls > 0 => (use_mock <=> CredentialMissing)

\* the request has been answered: the handler has sent its response, or
\* process_day has returned to, or raised into, its caller
RequestAnswered ==
    \/ entry = "http" /\ pc = "responded"
    \/ entry = "direct" /\ pc \in {"returned", "raised"}

\* C24: every temporary file created for a request, by the HTTP handler or by
\* process_day, has been deleted by the time the request is answered, whether
\* processing succeeded, returned an error result, or raised an exception.
C24_TempFilesDeleted ==
    RequestAnswered => \A name \in DOMAIN temp_files : ~temp_files[name]

====
